---------------------------- MODULE Spec2Model ----------------------------
(***************************************************************************)
(* Model of the ViewGraph component (src/components/atoms/ViewGraph.tsx):  *)
(* the effect that reloads the posts and subscribes to the NewPost event   *)
(* of the Poster contract, the deferred reloads it schedules, and the      *)
(* parsePost decoder.                                                      *)
(***************************************************************************)
EXTENDS Integers, Sequences, FiniteSets, TLC

(* ---------------------------- bounds ---------------------------------- *)
MaxEvents == 2
MaxExternal == 1
MaxGroups == 3
MaxPosts == 1

(* ------------------------- program constants -------------------------- *)
\* The JavaScript value undefined.
undefined == "undefined"

\* Debounce delay of the deferred reload, in clock ticks of the model.
SUBGRAPH_RELOADING_TIME_IN_MS == 2

\* Chain identifier used when the chainId prop is missing.
POSTER_DEFAULT_CHAIN_ID == "POSTER_DEFAULT_CHAIN_ID"

\* Provider returned by getDefaultProvider(POSTER_DEFAULT_NETWORK, INFURA_CONFIGURATION).
getDefaultProvider == "defaultProvider"

\* Values the chainId and library props take.
ChainIdProps == {undefined, "Polygon"}
LibraryProps == {undefined, "walletProvider"}
Providers == {getDefaultProvider, "walletProvider"}

VARIABLES
  lifecycle,                \* "init" (before the first effect run), "mounted", "unmounted"
  chainId,                  \* prop chainId
  library,                  \* prop library
  getAllPostsNeedsReload,   \* prop / store flag
  isReloadIntervalLoading,  \* prop / store flag
  deps,                     \* dependency values of the last effect run
  epoch,                    \* number of effect runs so far; identifies the live closure
  interval,                 \* the closure variable `interval`: a timer handle (> 0), or
                            \* 0 while it holds no handle (declared, never assigned)
  listeners,                \* listeners installed by posterContract.on
  timers,                   \* pending setTimeout callbacks, in firing order
  queries,                  \* number of getPosts() calls made
  status,                   \* what the query hook reports: "idle" (never called),
                            \* "loading", "ready" (data) or "error"
  delivered,                \* number of calls of delayedEventUpdate
  missed,                   \* a NewPost log was emitted after the unmount
  external,                 \* number of prop changes made by the parent
  post,                     \* input of parsePost
  parsed,                   \* value returned by parsePost
  transactions,             \* data.transactions of the query result
  rendered                  \* what the render made of transactions

syncVars == <<lifecycle, chainId, library, getAllPostsNeedsReload,
              isReloadIntervalLoading, deps, epoch, interval, listeners,
              timers, queries, status, delivered, missed, external>>
decoderVars == <<post, parsed, transactions, rendered>>
vars == <<syncVars, decoderVars>>

(* ------------------------------ effect -------------------------------- *)
\* A getPosts that queries only when the wallet supplied a provider.
getPosts_needsLibrary(q) == IF library = undefined THEN q ELSE q + 1

\* getPosts(): every call executes the lazy query once more.
getPosts(q) == q + 1

\* defaultProvider and defaultChainId of one effect run.
defaultProvider(lib) == IF lib # undefined THEN lib ELSE getDefaultProvider
defaultChainId(cid) == IF cid # undefined THEN cid ELSE POSTER_DEFAULT_CHAIN_ID

\* setTimeout(loadPosts, delay) called by effect run inst: the pending timers
\* with the new one, of handle id, which has `left` ticks to wait.
setTimeout(ts, inst, delay, id) ==
  Append(ts, [id |-> id, owner |-> inst, left |-> delay])

\* A clearTimeout that removes every pending timer.
clearTimeout_all(ts, handle) == <<>>

\* clearTimeout(handle): removes the pending timer with that handle, if any
\* (handles are positive: clearTimeout of an unassigned variable removes none).
clearTimeout(ts, handle) == SelectSeq(ts, LAMBDA t : t.id # handle)

\* A removeListener that leaves the listener installed.
removeListener_keeps(ls, inst) == ls

\* posterContract.removeListener(filter, delayedEventUpdate) of effect run inst.
removeListener(ls, inst) == {l \in ls : l.inst # inst}

\* A delayedEventUpdate that schedules a reload for the first event only.
delayedEventUpdate_once(ts, inst, id) ==
  IF delivered = 0
  THEN setTimeout(ts, inst, SUBGRAPH_RELOADING_TIME_IN_MS, id)
  ELSE ts

\* The timers after delayedEventUpdate of effect run inst has run;
\* id is the handle setTimeout would return.
delayedEventUpdate(ts, inst, id) ==
  IF interval = 0
  THEN setTimeout(ts, inst, SUBGRAPH_RELOADING_TIME_IN_MS, id)
  ELSE ts

\* loadPosts: one query, and the two dispatches.
loadPosts ==
  /\ queries' = getPosts(queries)
  /\ status' = "loading"
  /\ getAllPostsNeedsReload' = FALSE
  /\ isReloadIntervalLoading' = FALSE

\* The cleanup function the live effect run returned.
CleanupListeners == removeListener(listeners, epoch)
CleanupTimers == clearTimeout(timers, interval)

\* The effect body, run against the listeners and timers ls, ts that the
\* previous run's cleanup (if any) left.
RunEffect(ls, ts) ==
  /\ loadPosts
  /\ deps' = <<getAllPostsNeedsReload, chainId, library>>
  /\ epoch' = epoch + 1
  /\ interval' = 0
  /\ timers' = ts
  /\ IF defaultProvider(library) # undefined /\ defaultChainId(chainId) # undefined
     THEN listeners' = ls \cup {[inst |-> epoch + 1, provider |-> defaultProvider(library)]}
     ELSE listeners' = ls

Mount ==
  /\ lifecycle = "init"
  /\ lifecycle' = "mounted"
  /\ RunEffect(listeners, timers)
  /\ UNCHANGED <<chainId, library, delivered, missed, external, decoderVars>>

\* A dependency changed: React runs the cleanup, then the effect again.
EffectRerun ==
  /\ lifecycle = "mounted"
  /\ deps # <<getAllPostsNeedsReload, chainId, library>>
  /\ RunEffect(CleanupListeners, CleanupTimers)
  /\ UNCHANGED <<lifecycle, chainId, library, delivered, missed, external, decoderVars>>

Unmount ==
  /\ lifecycle = "mounted"
  /\ lifecycle' = "unmounted"
  /\ listeners' = CleanupListeners
  /\ timers' = CleanupTimers
  /\ UNCHANGED <<chainId, library, getAllPostsNeedsReload, isReloadIntervalLoading,
                 deps, epoch, interval, queries, delivered, missed, external,
                 status, decoderVars>>

(* ------------------------ parent / environment ------------------------ *)
\* The parent dispatches SET_SUBGRAPH_GETALLPOSTS_RELOAD with true.
RequestReload ==
  /\ lifecycle = "mounted"
  /\ external < MaxExternal
  /\ ~getAllPostsNeedsReload
  /\ getAllPostsNeedsReload' = TRUE
  /\ external' = external + 1
  /\ UNCHANGED <<lifecycle, chainId, library, isReloadIntervalLoading, deps, epoch,
                 interval, listeners, timers, queries, delivered, missed, status, decoderVars>>

ChangeChain ==
  /\ lifecycle = "mounted"
  /\ external < MaxExternal
  /\ \E c \in ChainIdProps \ {chainId} : chainId' = c
  /\ external' = external + 1
  /\ UNCHANGED <<lifecycle, library, getAllPostsNeedsReload, isReloadIntervalLoading,
                 deps, epoch, interval, listeners, timers, queries, delivered, missed,
                 status, decoderVars>>

ChangeLibrary ==
  /\ lifecycle = "mounted"
  /\ external < MaxExternal
  /\ \E l \in LibraryProps \ {library} : library' = l
  /\ external' = external + 1
  /\ UNCHANGED <<lifecycle, chainId, getAllPostsNeedsReload, isReloadIntervalLoading,
                 deps, epoch, interval, listeners, timers, queries, delivered, missed,
                 status, decoderVars>>

\* Provider p emits a NewPost log; the contract calls the listeners installed on it.
Heard(p) == {l \in listeners : l.provider = p}

ChainEvent(p) ==
  IF Heard(p) # {}
  THEN /\ delivered < MaxEvents
       /\ isReloadIntervalLoading' = TRUE
       /\ timers' = delayedEventUpdate(timers, (CHOOSE l \in Heard(p) : TRUE).inst,
                                       delivered + 1)
       /\ delivered' = delivered + 1
       /\ UNCHANGED <<lifecycle, chainId, library, getAllPostsNeedsReload, deps, epoch,
                      interval, listeners, queries, missed, external, status, decoderVars>>
  ELSE /\ missed' = (missed \/ lifecycle = "unmounted")
       /\ UNCHANGED <<lifecycle, chainId, library, getAllPostsNeedsReload,
                      isReloadIntervalLoading, deps, epoch, interval, listeners,
                      timers, queries, delivered, external, status, decoderVars>>

\* The earliest pending setTimeout callback, once its delay has passed, runs loadPosts.
TimerFire ==
  /\ timers # <<>>
  /\ Head(timers).left = 0
  /\ loadPosts
  /\ timers' = Tail(timers)
  /\ UNCHANGED <<lifecycle, chainId, library, deps, epoch, interval, listeners,
                 delivered, missed, external, decoderVars>>

\* One tick of time passes for every pending timer, unless a callback is due.
Tick ==
  /\ timers # <<>>
  /\ \A i \in DOMAIN timers : timers[i].left > 0
  /\ timers' = [i \in DOMAIN timers |-> [timers[i] EXCEPT !.left = @ - 1]]
  /\ UNCHANGED <<lifecycle, chainId, library, getAllPostsNeedsReload,
                 isReloadIntervalLoading, deps, epoch, interval, listeners,
                 queries, delivered, missed, external, status, decoderVars>>

\* A completion that, on an error, executes the query again.
QueryComplete_retry ==
  /\ status = "loading"
  /\ \/ status' = "ready" /\ queries' = queries
     \/ status' = "loading" /\ queries' = queries + 1
  /\ UNCHANGED <<lifecycle, chainId, library, getAllPostsNeedsReload,
                 isReloadIntervalLoading, deps, epoch, interval, listeners, timers,
                 delivered, missed, external, decoderVars>>

\* The query in flight completes: the hook reports data or an error.
QueryComplete ==
  /\ status = "loading"
  /\ \E outcome \in {"ready", "error"} : status' = outcome
  /\ UNCHANGED <<lifecycle, chainId, library, getAllPostsNeedsReload,
                 isReloadIntervalLoading, deps, epoch, interval, listeners, timers,
                 queries, delivered, missed, external, decoderVars>>

(* ------------------------------ parsePost ----------------------------- *)
\* JavaScript values: kind, the text of a string or number, the members of
\* an object or array.
NoMembers == [k \in {} |-> ""]
JsUndefined == [kind |-> "undefined", s |-> "", f |-> NoMembers]
JsNull == [kind |-> "null", s |-> "", f |-> NoMembers]
JsString(x) == [kind |-> "string", s |-> x, f |-> NoMembers]
JsNumber(x) == [kind |-> "number", s |-> x, f |-> NoMembers]
JsBoolean(x) == [kind |-> "boolean", s |-> x, f |-> NoMembers]
JsObject(members) == [kind |-> "object", s |-> "", f |-> members]
JsArray(members) == [kind |-> "array", s |-> "", f |-> members]
WithMember(members, key, v) ==
  [k \in DOMAIN members \cup {key} |-> IF k = key THEN v ELSE members[k]]

\* Tokens of the JSON grammar.
P(x) == [t |-> "punct", v |-> x]
S(x) == [t |-> "string", v |-> x]
N(x) == [t |-> "number", v |-> x]
W(x) == [t |-> "word", v |-> x]

\* The raw contents the posts carry.
RawHello == "hello"
RawEmpty == ""
RawNumber == "42"
RawNull == "null"
RawArray == "[]"
RawEmptyObject == "{}"
RawString == "\"hi\""
RawMicroblog == "{\"type\":\"microblog\",\"text\":\"hi\"}"
RawMicroblogImage == "{\"type\":\"microblog\",\"text\":\"hi\",\"image\":\"Qm\"}"
RawUnknownImage == "{\"type\":\"unknown\",\"text\":\"x\",\"image\":\"Qm\"}"
RawNoType == "{\"text\":\"hi\"}"
RawTruncated == "{\"type\":\"microblog\""
RawTrailingComma == "{\"type\":\"microblog\",}"
RawReply ==
  "{\"type\":\"microblog\",\"text\":\"hi\",\"replyTo\":{\"posts\":[\"p1\"],\"from\":{\"id\":\"0xA\"}}}"

RawContents == {RawHello, RawEmpty, RawNumber, RawNull, RawArray, RawEmptyObject,
                RawString, RawMicroblog, RawMicroblogImage, RawUnknownImage,
                RawNoType, RawTruncated, RawTrailingComma, RawReply}

\* The tokens JSON.parse reads in a raw content.
Tokens(raw) ==
  CASE raw = RawHello -> <<W("hello")>>
    [] raw = RawEmpty -> <<>>
    [] raw = RawNumber -> <<N("42")>>
    [] raw = RawNull -> <<W("null")>>
    [] raw = RawArray -> <<P("["), P("]")>>
    [] raw = RawEmptyObject -> <<P("{"), P("}")>>
    [] raw = RawString -> <<S("hi")>>
    [] raw = RawMicroblog ->
         <<P("{"), S("type"), P(":"), S("microblog"), P(","),
           S("text"), P(":"), S("hi"), P("}")>>
    [] raw = RawMicroblogImage ->
         <<P("{"), S("type"), P(":"), S("microblog"), P(","),
           S("text"), P(":"), S("hi"), P(","), S("image"), P(":"), S("Qm"), P("}")>>
    [] raw = RawUnknownImage ->
         <<P("{"), S("type"), P(":"), S("unknown"), P(","),
           S("text"), P(":"), S("x"), P(","), S("image"), P(":"), S("Qm"), P("}")>>
    [] raw = RawNoType -> <<P("{"), S("text"), P(":"), S("hi"), P("}")>>
    [] raw = RawTruncated -> <<P("{"), S("type"), P(":"), S("microblog")>>
    [] raw = RawTrailingComma ->
         <<P("{"), S("type"), P(":"), S("microblog"), P(","), P("}")>>
    [] raw = RawReply ->
         <<P("{"), S("type"), P(":"), S("microblog"), P(","),
           S("text"), P(":"), S("hi"), P(","),
           S("replyTo"), P(":"), P("{"),
             S("posts"), P(":"), P("["), S("p1"), P("]"), P(","),
             S("from"), P(":"), P("{"), S("id"), P(":"), S("0xA"), P("}"),
           P("}"), P("}")>>

\* JSON.parse: a recursive descent over the tokens. A parse yields
\* [ok, val, pos]: whether a value was read, the value, the next position.
SyntaxError == [ok |-> FALSE, val |-> JsUndefined, pos |-> 0]
Parsed(v, next) == [ok |-> TRUE, val |-> v, pos |-> next]
Is(toks, i, tok) == i <= Len(toks) /\ toks[i] = tok

RECURSIVE ParseValue(_, _)
RECURSIVE ParseMembers(_, _, _)
RECURSIVE ParseElements(_, _, _, _)

ParseMembers(toks, i, acc) ==
  IF i + 1 <= Len(toks) /\ toks[i].t = "string" /\ toks[i + 1] = P(":")
  THEN LET r == ParseValue(toks, i + 2)
           members == WithMember(acc, toks[i].v, r.val)
       IN IF ~r.ok THEN SyntaxError
          ELSE IF Is(toks, r.pos, P(",")) THEN ParseMembers(toks, r.pos + 1, members)
          ELSE IF Is(toks, r.pos, P("}")) THEN Parsed(JsObject(members), r.pos + 1)
          ELSE SyntaxError
  ELSE SyntaxError

ParseElements(toks, i, n, acc) ==
  LET r == ParseValue(toks, i)
      members == WithMember(acc, ToString(n), r.val)
  IN IF ~r.ok THEN SyntaxError
     ELSE IF Is(toks, r.pos, P(",")) THEN ParseElements(toks, r.pos + 1, n + 1, members)
     ELSE IF Is(toks, r.pos, P("]")) THEN Parsed(JsArray(members), r.pos + 1)
     ELSE SyntaxError

ParseValue(toks, i) ==
  IF i > Len(toks) THEN SyntaxError
  ELSE LET tok == toks[i] IN
    CASE tok.t = "string" -> Parsed(JsString(tok.v), i + 1)
      [] tok.t = "number" -> Parsed(JsNumber(tok.v), i + 1)
      [] tok.t = "word" ->
           IF tok.v = "null" THEN Parsed(JsNull, i + 1)
           ELSE IF tok.v \in {"true", "false"} THEN Parsed(JsBoolean(tok.v), i + 1)
           ELSE SyntaxError
      [] tok = P("{") ->
           IF Is(toks, i + 1, P("}")) THEN Parsed(JsObject(NoMembers), i + 2)
           ELSE ParseMembers(toks, i + 1, NoMembers)
      [] tok = P("[") ->
           IF Is(toks, i + 1, P("]")) THEN Parsed(JsArray(NoMembers), i + 2)
           ELSE ParseElements(toks, i + 1, 0, NoMembers)
      [] OTHER -> SyntaxError

\* Outcome of a call: it threw, or it returned val.
Throw == [threw |-> TRUE, val |-> JsUndefined]
Return(v) == [threw |-> FALSE, val |-> v]

JSONparse(raw) ==
  LET toks == Tokens(raw)
      r == ParseValue(toks, 1)
  IN IF r.ok /\ r.pos = Len(toks) + 1 THEN Return(r.val) ELSE Throw

\* 'type' in action: a TypeError unless action is an object.
HasType(action) ==
  IF action.kind \in {"object", "array"}
  THEN Return("type" \in DOMAIN action.f)
  ELSE Throw

\* A try block that decodes the raw content whatever the action is.
parsePostTry_alwaysParse(p) == JSONparse(p.rawContent)

\* The try block of parsePost.
parsePostTry(p) ==
  LET action == p.action IN
    IF HasType(action).threw THEN Throw
    ELSE IF HasType(action).val /\ action.f["type"] = JsString("microblog")
         THEN Return(action)
         ELSE JSONparse(p.rawContent)

\* The catch block of parsePost.
parsePostCatch(p) ==
  Return(JsObject([type |-> JsString("unknown"), text |-> JsString(p.rawContent)]))

parsePost(p) ==
  IF parsePostTry(p).threw THEN parsePostCatch(p) ELSE parsePostTry(p)

\* The actions the indexer's posts carry.
ActionMicroblog == JsObject([type |-> JsString("microblog"), text |-> JsString("hi")])
ActionMicroblogImage ==
  JsObject([type |-> JsString("microblog"), text |-> JsString("yo"),
            image |-> JsString("Qm")])
ActionUnknown == JsObject([type |-> JsString("unknown"), text |-> JsString("x")])
Actions == {JsUndefined, JsNull, JsObject(NoMembers), ActionMicroblog,
            ActionMicroblogImage, ActionUnknown}

Posts == [rawContent : RawContents, action : Actions]

NotParsed == [done |-> FALSE, threw |-> FALSE, val |-> JsUndefined]

\* The render calls parsePost on a post.
Decode ==
  /\ ~parsed.done
  /\ parsed' = [done |-> TRUE, threw |-> parsePost(post).threw, val |-> parsePost(post).val]
  /\ UNCHANGED <<post, transactions, rendered, syncVars>>

(* ------------------------------- render ------------------------------- *)
\* Author identifiers whose transactions are not shown.
JACK_CENSORSHIP_LIST == {"0xBAD"}

Authors == {"0xGOOD", "0xBAD"}

\* The posts the transactions of a query result carry.
PostHello == [rawContent |-> RawHello, action |-> JsObject(NoMembers)]
PostNull == [rawContent |-> RawNull, action |-> JsObject(NoMembers)]
PostMicroblog == [rawContent |-> RawMicroblog, action |-> ActionMicroblog]
PostSamples == {PostHello, PostNull, PostMicroblog}

SeqsUpTo(set, n) == UNION {[1..k -> set] : k \in 0..n}
Groups == [from : Authors, posts : SeqsUpTo(PostSamples, MaxPosts)]
QueryResults == SeqsUpTo(Groups, MaxGroups)

\* A filter that keeps the transactions of the listed authors instead.
filterTransactions_inverted(txs) ==
  SelectSeq(txs, LAMBDA g : g.from \in JACK_CENSORSHIP_LIST)

\* transactions.filter(({ from }) => !JACK_CENSORSHIP_LIST.includes(from.id))
filterTransactions(txs) ==
  SelectSeq(txs, LAMBDA g : g.from \notin JACK_CENSORSHIP_LIST)

\* Truthiness of a JavaScript value.
Truthy(v) ==
  CASE v.kind \in {"undefined", "null"} -> FALSE
    [] v.kind = "string" -> v.s # ""
    [] v.kind = "number" -> v.s # "0"
    [] v.kind = "boolean" -> v.s = "true"
    [] OTHER -> TRUE

\* v.key, for a value v that is neither null nor undefined.
Member(v, key) == IF key \in DOMAIN v.f THEN v.f[key] ELSE JsUndefined

\* Nothing is displayed for a post.
NoElement == [shown |-> FALSE, text |-> JsUndefined, image |-> JsUndefined]

\* The map callback on one post: parsePost, the destructuring of its result
\* (a TypeError on null or undefined), and the element for the post.
renderPost(p) ==
  LET parsedPost == parsePost(p).val IN
    IF parsedPost.kind \in {"null", "undefined"} THEN [threw |-> TRUE, val |-> NoElement]
    ELSE LET text == Member(parsedPost, "text")
             image == Member(parsedPost, "image")
             type == Member(parsedPost, "type")
         IN IF Truthy(text) /\ type = JsString("microblog")
            THEN [threw |-> FALSE, val |-> [shown |-> TRUE, text |-> text, image |-> image]]
            ELSE [threw |-> FALSE, val |-> NoElement]

\* The posts of the groups, in the order the render visits them, each with
\* the index of its group and its index in the group.
RECURSIVE Visits(_, _)
Visits(groups, g) ==
  IF g > Len(groups) THEN <<>>
  ELSE [j \in 1..Len(groups[g].posts) |-> [g |-> g, j |-> j, post |-> groups[g].posts[j]]]
       \o Visits(groups, g + 1)

\* The render of a query result: the filter, then the map over the groups
\* and their posts, which stops at the first callback that throws.
Render(txs) ==
  LET filtered == filterTransactions(txs)
      visits == Visits(filtered, 1)
      throwing == {i \in DOMAIN visits : renderPost(visits[i].post).threw}
      last == IF throwing = {} THEN Len(visits)
              ELSE CHOOSE i \in throwing : \A k \in throwing : i <= k
  IN [done |-> TRUE,
      threw |-> throwing # {},
      filtered |-> filtered,
      decoded |-> [i \in 1..last |-> visits[i]],
      out |-> IF throwing # {} THEN <<>>
              ELSE [g \in DOMAIN filtered |->
                     [j \in DOMAIN filtered[g].posts |-> renderPost(filtered[g].posts[j]).val]]]

NotRendered == [done |-> FALSE, threw |-> FALSE, filtered |-> <<>>, decoded |-> <<>>,
                out |-> <<>>]

RenderQueryResult ==
  /\ ~rendered.done
  /\ rendered' = Render(transactions)
  /\ UNCHANGED <<post, parsed, transactions, syncVars>>

NoPost == [rawContent |-> RawEmpty, action |-> JsUndefined]

Init ==
  /\ lifecycle = "init"
  /\ chainId \in ChainIdProps
  /\ library \in LibraryProps
  /\ getAllPostsNeedsReload \in BOOLEAN
  /\ isReloadIntervalLoading \in BOOLEAN
  /\ deps = <<>>
  /\ epoch = 0
  /\ interval = 0
  /\ listeners = {}
  /\ timers = <<>>
  /\ queries = 0
  /\ status = "idle"
  /\ delivered = 0
  /\ missed = FALSE
  /\ external = 0
  /\ post = NoPost
  /\ parsed = NotParsed
  /\ transactions = <<>>
  /\ rendered = NotRendered

Next ==
  \/ Mount
  \/ EffectRerun
  \/ Unmount
  \/ RequestReload
  \/ ChangeChain
  \/ ChangeLibrary
  \/ \E p \in Providers : ChainEvent(p)
  \/ TimerFire
  \/ Tick
  \/ QueryComplete

Spec == Init /\ [][Next]_vars

\* Time passes and a due callback runs: the event loop leaves no timer waiting.
FairSpec == Spec /\ WF_vars(Tick) /\ WF_vars(TimerFire)

\* The decoder alone, on every post of Posts.
DecoderInit ==
  /\ lifecycle = "init"
  /\ chainId = undefined
  /\ library = undefined
  /\ getAllPostsNeedsReload = FALSE
  /\ isReloadIntervalLoading = FALSE
  /\ deps = <<>>
  /\ epoch = 0
  /\ interval = 0
  /\ listeners = {}
  /\ timers = <<>>
  /\ queries = 0
  /\ status = "idle"
  /\ delivered = 0
  /\ missed = FALSE
  /\ external = 0
  /\ post \in Posts
  /\ parsed = NotParsed
  /\ transactions = <<>>
  /\ rendered = NotRendered

DecoderNext == Decode

DecoderSpec == DecoderInit /\ [][DecoderNext]_vars

\* The render alone, on every query result of QueryResults.
RenderInit ==
  /\ lifecycle = "init"
  /\ chainId = undefined
  /\ library = undefined
  /\ getAllPostsNeedsReload = FALSE
  /\ isReloadIntervalLoading = FALSE
  /\ deps = <<>>
  /\ epoch = 0
  /\ interval = 0
  /\ listeners = {}
  /\ timers = <<>>
  /\ queries = 0
  /\ status = "idle"
  /\ delivered = 0
  /\ missed = FALSE
  /\ external = 0
  /\ post = NoPost
  /\ parsed = NotParsed
  /\ transactions \in QueryResults
  /\ rendered = NotRendered

RenderNext == RenderQueryResult

RenderSpec == RenderInit /\ [][RenderNext]_vars

(* ------------------------------ properties ---------------------------- *)
\* The effect runs whose listener is installed.
Live == {l.inst : l \in listeners}

\* A step in which a pending timer ran loadPosts.
TimerFired == Len(timers') < Len(timers) /\ queries' # queries

\* C1: debounce coalescing - a chain event delivered while a deferred reload
\* of the same subscription is pending creates no new timer, so one effect run
\* never has two deferred reloads pending.
C1_Coalescing ==
  \A i, j \in DOMAIN timers : timers[i].owner = timers[j].owner => i = j

\* C2: pending-reload cancellation - a deferred reload never fires after the
\* cleanup of the effect run that scheduled it (unmount or re-subscription).
C2_NoReloadAfterTeardown ==
  [][TimerFired => Head(timers).owner \in Live]_vars

\* C3: unsubscribe cleanliness - a chain event after the unmount reaches no
\* listener: it schedules no reload, issues no query and changes neither the
\* loading marker nor the needs-reload flag; and a chain event that is
\* delivered at all is delivered to the listener of the live effect run only.
C3_UnsubscribeClean ==
  [][/\ (lifecycle = "unmounted" /\ (missed' # missed \/ delivered' # delivered))
          => /\ delivered' = delivered
             /\ UNCHANGED <<timers, queries, isReloadIntervalLoading,
                            getAllPostsNeedsReload, listeners>>
     /\ delivered' # delivered
          => /\ lifecycle = "mounted"
             /\ timers' # <<>>
             /\ timers'[Len(timers')].owner = epoch]_vars

C3_Witness == lifecycle = "unmounted" /\ missed /\ delivered > 0

\* C4: debounce re-arming - a chain event delivered when every earlier deferred
\* reload has fired schedules exactly one new reload, due after the debounce
\* delay; and every delivered event accounts for exactly one reload, fired or
\* still pending.
C4_Rearm ==
  /\ [][(delivered' # delivered /\ timers = <<>>)
          => timers' = <<[id |-> delivered', owner |-> epoch,
                          left |-> SUBGRAPH_RELOADING_TIME_IN_MS]>>]_vars
  /\ [](queries = epoch + delivered - Len(timers))

\* The second event arrived after the reload of the first had fired.
C4_Witness ==
  /\ delivered = 2
  /\ Len(timers) = 1
  /\ timers[1].id = 2
  /\ timers[1].left = SUBGRAPH_RELOADING_TIME_IN_MS
  /\ queries = epoch + 1

\* C7: initial reload - the first effect run issues exactly one query,
\* whatever provider and chain identifier are supplied or missing, and no
\* chain event has to be delivered first.
C7_InitialReload ==
  [][(lifecycle = "init" /\ lifecycle' # "init")
       => (queries = 0 /\ queries' = 1 /\ delivered' = 0 /\ timers' = <<>>)]_vars

C7_Witness ==
  /\ lifecycle = "mounted"
  /\ epoch = 1
  /\ external = 0
  /\ library = undefined
  /\ chainId = undefined
  /\ queries = 1

\* The structured schema: an object of type "microblog" with a string text.
IsMicroblog(v) ==
  /\ v.kind = "object"
  /\ "type" \in DOMAIN v.f
  /\ v.f["type"] = JsString("microblog")
  /\ "text" \in DOMAIN v.f
  /\ v.f["text"].kind = "string"
ValidStructured(raw) == ~JSONparse(raw).threw /\ IsMicroblog(JSONparse(raw).val)
IsUnknown(v) ==
  v.kind = "object" /\ "type" \in DOMAIN v.f /\ v.f["type"] = JsString("unknown")
Unknown(raw) == JsObject([type |-> JsString("unknown"), text |-> JsString(raw)])

\* C8: decoder totality - with an empty action parsePost never raises, and a
\* raw content that is not valid structured-schema JSON yields exactly
\* {type: "unknown", text: rawContent}.
C8_DecoderTotality ==
  (parsed.done /\ post.action = JsObject(NoMembers))
    => /\ ~parsed.threw
       /\ ~ValidStructured(post.rawContent) => parsed.val = Unknown(post.rawContent)

\* C9: with an absent (null, undefined) or empty action, a raw content that is
\* a valid structured microblog payload is returned parsed, with type
\* "microblog".
C9_AbsentActionDecodesRaw ==
  (/\ parsed.done
   /\ post.action \in {JsUndefined, JsNull, JsObject(NoMembers)}
   /\ ValidStructured(post.rawContent))
    => /\ parsed.val = JSONparse(post.rawContent).val
       /\ IsMicroblog(parsed.val)

\* C10: the returned value has type "unknown" exactly when the action is not
\* a microblog and the raw content is not valid structured JSON, and then its
\* text is the raw content and image and replyTo are absent.
C10_UnknownIffFailed ==
  parsed.done
    => /\ IsUnknown(parsed.val)
            <=> (~IsMicroblog(post.action) /\ ~ValidStructured(post.rawContent))
       /\ IsUnknown(parsed.val)
            => /\ parsed.val.f["text"] = JsString(post.rawContent)
               /\ "image" \notin DOMAIN parsed.val.f
               /\ "replyTo" \notin DOMAIN parsed.val.f

\* The groups of the query result whose author is not listed, in order.
KeptGroups == SelectSeq(transactions, LAMBDA g : g.from \notin JACK_CENSORSHIP_LIST)

\* C11: one failing post never affects the others - the render does not throw,
\* and every post of a non-listed author that renders on its own has its
\* element in the output.
C11_FailingPostIsolated ==
  rendered.done
    => /\ ~rendered.threw
       /\ \A g \in DOMAIN KeptGroups : \A j \in DOMAIN KeptGroups[g].posts :
            ~renderPost(KeptGroups[g].posts[j]).threw
              => /\ g \in DOMAIN rendered.out
                 /\ j \in DOMAIN rendered.out[g]
                 /\ rendered.out[g][j] = renderPost(KeptGroups[g].posts[j]).val

\* C12: a post of a non-listed author whose raw content is not JSON (hello)
\* is decoded to {type: "unknown", text: rawContent} and is displayed.
C12_UnknownPostIncluded ==
  rendered.done
    => \A g \in DOMAIN KeptGroups : \A j \in DOMAIN KeptGroups[g].posts :
         LET p == KeptGroups[g].posts[j] IN
           (JSONparse(p.rawContent).threw /\ ~IsMicroblog(p.action))
             => /\ parsePost(p).val = Unknown(p.rawContent)
                /\ g \in DOMAIN rendered.out
                /\ j \in DOMAIN rendered.out[g]
                /\ rendered.out[g][j].shown

\* C13: the filtered transactions are exactly the groups of non-listed
\* authors, in their original order: the k-th kept group is the k-th group
\* of the input whose author is not listed.
C13_FilterExactStable ==
  LET kept == {i \in DOMAIN transactions : transactions[i].from \notin JACK_CENSORSHIP_LIST}
      rank(i) == Cardinality({k \in kept : k <= i})
  IN rendered.done
       => /\ Len(rendered.filtered) = Cardinality(kept)
          /\ \A i \in kept : rendered.filtered[rank(i)] = transactions[i]
          /\ \A k \in DOMAIN rendered.filtered :
               rendered.filtered[k].from \notin JACK_CENSORSHIP_LIST

C13_Witness ==
  /\ rendered.done
  /\ Len(transactions) = 3
  /\ transactions[1].from = "0xGOOD"
  /\ transactions[2].from = "0xBAD"
  /\ transactions[3].from = "0xGOOD"
  /\ transactions[1] # transactions[3]
  /\ rendered.filtered = <<transactions[1], transactions[3]>>

\* C14: filter before decode - the posts parsePost is called on are exactly
\* the posts of the groups of non-listed authors.
C14_DecodedExactlyKept ==
  rendered.done => rendered.decoded = Visits(KeptGroups, 1)

\* C15: decoder fast path - an action of type "microblog" is returned
\* unchanged, whatever the raw content holds.
C15_FastPath ==
  (/\ parsed.done
   /\ post.action.kind = "object"
   /\ "type" \in DOMAIN post.action.f
   /\ post.action.f["type"] = JsString("microblog"))
    => /\ ~parsed.threw
       /\ parsed.val = post.action

C15_Witness ==
  /\ parsed.done
  /\ post.action = ActionMicroblogImage
  /\ post.rawContent = RawTruncated
  /\ parsed.val = ActionMicroblogImage

\* The dependency values the effect would capture now.
CurrentDeps == <<getAllPostsNeedsReload, chainId, library>>

\* C16: no automatic retry - a query is issued only by an effect run (the
\* mount, or a change of the needs-reload flag, provider or chain) or by a
\* deferred reload that a chain event scheduled; an error the hook reports
\* stays reported until such a query is issued.
C16_NoAutomaticRetry ==
  [][/\ queries' # queries => (epoch' # epoch \/ TimerFired)
     /\ epoch' # epoch => (lifecycle = "init" \/ deps # CurrentDeps)
     /\ (status = "error" /\ queries' = queries) => status' = "error"]_vars

\* The hook reports an error and nothing is left that would issue a query.
C16_Witness ==
  /\ status = "error"
  /\ lifecycle = "mounted"
  /\ deps = CurrentDeps
  /\ timers = <<>>
  /\ queries > 1

\* C17: no lost update - the k-th chain event delivered to the listener is
\* eventually followed by the k-th deferred reload, a query issued after it.
C17_NoLostUpdate ==
  \A k \in 1..MaxEvents : (delivered >= k) ~> (queries - epoch >= k)

C17_Witness ==
  /\ lifecycle = "mounted"
  /\ delivered = 2
  /\ queries - epoch = 2
  /\ epoch > 1

\* C18: the loading marker is never stuck - once the effect has run, the
\* marker is set only while a deferred reload is pending.
C18_LoadingHasPendingReload ==
  (lifecycle # "init" /\ isReloadIntervalLoading) => timers # <<>>

C18_Witness ==
  /\ lifecycle = "unmounted"
  /\ isReloadIntervalLoading
  /\ timers # <<>>

\* C20: single live subscription - at most one listener is installed at any
\* time, it belongs to the latest effect run, and none is installed before
\* the mount or after the unmount.
C20_SingleSubscription ==
  /\ Cardinality(listeners) <= 1
  /\ \A l \in listeners : l.inst = epoch /\ l.provider = defaultProvider(deps[3])
  /\ lifecycle # "mounted" => listeners = {}

C20_Witness ==
  /\ lifecycle = "mounted"
  /\ epoch > 1
  /\ external > 0
  /\ listeners = {[inst |-> epoch, provider |-> "walletProvider"]}

=============================================================================
